---- MODULE Spec2Model ----
(***************************************************************************)
(* A model of the cnLab exercises:                                         *)
(*   assignment_10/icmpTimestamp.c  checksum()                             *)
(*   assignment_12/icmp_flood.c     csum(), main() (header encode loop)    *)
(*   assignment_13/analyzer.c       packet_handler()                       *)
(*   assignment_13/parser.c         packet_handler()                       *)
(*                                                                         *)
(* Memory is modelled as bytes (0..255).  A 16-bit load or store goes      *)
(* through the host byte order, which is a property of the build: the      *)
(* variable little_endian is chosen in Init and never changes.  "long" is  *)
(* the 64-bit long of an LP64 Linux build, so the word sum of a buffer of  *)
(* at most 2^31-1 bytes never overflows it and is kept as an integer.      *)
(***************************************************************************)
EXTENDS Integers, Sequences, FiniteSets, TLC

VARIABLES
    little_endian,  \* host byte order of the build
    \* ---- checksum harness (csum / checksum called on one buffer)
    buf,            \* the buffer handed to csum: [runs, odd]
    field,          \* index of the run holding the checksum field, 0 = none
    result,         \* value returned by the last csum call, -1 = none yet
    cpc,            \* position of the harness
    \* ---- icmp_flood.c main()
    datagram,       \* first 28 bytes of char datagram[4096]; byte off is datagram[off + 1]
    fpc,            \* position in main()
    pid,            \* getpid()
    target,         \* inet_addr(target_ip), as its 4 bytes in memory
    iter,           \* completed iterations of while (1)
    sent,           \* what the last sendto was handed: [bytes, len, ok]
    \* ---- analyzer.c / parser.c packet_handler()
    prog,           \* which program's packet_handler runs
    start_sec,      \* static long start_sec
    start_usec,     \* static long start_usec (analyzer.c only)
    frame,          \* the frame of the last call
    ts,             \* header->ts of the last call
    reads,          \* byte offsets of packet the last call read
    out,            \* what the last call printed as classification
    rel,            \* relative time printed by the last call, in microseconds
    calls,          \* number of calls so far
    first_ts,       \* history: header->ts of the first call
    first_rel       \* history: relative time printed by the first call

endianVars == <<little_endian>>
csumVars == <<buf, field, result, cpc>>
floodVars == <<datagram, fpc, pid, target, iter, sent>>
decodeVars == <<prog, start_sec, start_usec, frame, ts, reads, out, rel, calls,
                first_ts, first_rel>>
vars == <<endianVars, csumVars, floodVars, decodeVars>>

Byte == 0..255

(***************************************************************************)
(* 16-bit loads and stores in host byte order                              *)
(***************************************************************************)

\* *ptr for an unsigned short *ptr over the bytes b0 (lower address), b1
LoadWord(b0, b1) ==
    IF little_endian THEN b0 + 256 * b1 ELSE 256 * b0 + b1

\* the two bytes a store of the unsigned short v leaves in memory
StoreWord(v) ==
    IF little_endian THEN <<v % 256, v \div 256>> ELSE <<v \div 256, v % 256>>

\* htons(v): the value whose in-memory bytes are v in network byte order
htons(v) ==
    LET w == v % 65536 IN
    IF little_endian THEN (w % 256) * 256 + (w \div 256) ELSE w

(***************************************************************************)
(* csum (icmp_flood.c) and checksum (icmpTimestamp.c): the same function.  *)
(* A buffer is [runs, odd]: runs is a sequence of [b0, b1, n], the byte    *)
(* pair b0 b1 repeated n times, and odd holds the trailing byte of an      *)
(* odd-length buffer (a sequence of length 0 or 1).  The while loop adds   *)
(* one word per iteration; over a run of n equal words it adds n times     *)
(* that word.                                                              *)
(***************************************************************************)

\* long sum: TLC's integers are 32 bits wide, so the 64-bit long is kept as
\* [hi, lo] with value hi * 65536 + lo and lo in 0..65535
LongZero == [hi |-> 0, lo |-> 0]

\* sum after n iterations of  sum += w  (w a 16-bit word, n < 2^31)
LongAddWords(sum, n, w) ==
    LET nh == n \div 65536
        nl == n % 65536
        wh == w \div 256
        wl == w % 256
        q == nl * wh                       \* nl * w = q * 256 + nl * wl
        l == sum.lo + nl * wl + (q % 256) * 256
    IN [hi |-> sum.hi + nh * w + (q \div 256) + (l \div 65536), lo |-> l % 65536]

\* while (nbytes > 1) { sum += *ptr++; nbytes -= 2; }
RECURSIVE SumWords(_, _, _)
SumWords(runs, i, sum) ==
    IF i > Len(runs) THEN sum
    ELSE SumWords(runs, i + 1,
                  LongAddWords(sum, runs[i].n, LoadWord(runs[i].b0, runs[i].b1)))

\* faulty variant of OddByte: oddbyte = *(u_char*)ptr, the byte taken as the value
OddByteAsValue(b) == b

\* oddbyte = 0; *((u_char*)&oddbyte) = *(u_char*)ptr;
OddByte(b) == LoadWord(b, 0)

\* if (nbytes == 1) { ...; sum += oddbyte; }
SumOdd(odd, sum) ==
    IF Len(odd) = 1 THEN LongAddWords(sum, 1, OddByte(odd[1])) ELSE sum

\* sum = (sum >> 16) + (sum & 0xffff); sum = sum + (sum >> 16);
Fold(sum) ==
    LET s1 == sum.hi + sum.lo IN s1 + (s1 \div 65536)

\* answer = (short)~sum; return (answer);   as unsigned short
Answer(sum) == 65535 - (sum % 65536)

\* sum = 0; the loop; the odd byte
WordSum(b) == SumOdd(b.odd, SumWords(b.runs, 1, LongZero))

csum(b) == Answer(Fold(WordSum(b)))

(***************************************************************************)
(* Checksum harness: csum applied to one buffer drawn from bounded sets.   *)
(***************************************************************************)

MaxRuns == 2

BytePairs == {<<0, 0>>, <<255, 255>>, <<1, 0>>, <<18, 52>>}
RunCounts == {1, 3, 65538}
OddTails == {<<>>, <<0>>, <<1>>, <<171>>}

RunSet == {[b0 |-> p[1], b1 |-> p[2], n |-> c] : p \in BytePairs, c \in RunCounts}
RunSeqs == UNION {[1..k -> RunSet] : k \in 0..MaxRuns}
Buffers == {[runs |-> r, odd |-> o] : r \in RunSeqs, o \in OddTails}

\* a checksum field is one 16-bit word of the buffer, at an even offset
Fields(b) == {0} \cup {i \in 1..Len(b.runs) : b.runs[i].n = 1}

\* the buffer with the 16-bit word v stored in its checksum field
WithField(b, f, v) ==
    [b EXCEPT !.runs[f] = [b0 |-> StoreWord(v)[1], b1 |-> StoreWord(v)[2], n |-> 1]]

\* result = csum(ptr, nbytes)
CallCsum ==
    /\ cpc = "input"
    /\ result' = csum(buf)
    /\ cpc' = "called"
    /\ UNCHANGED <<buf, field>>
    /\ UNCHANGED <<endianVars, floodVars, decodeVars>>

\* icmp->checksum = 0; icmp->checksum = checksum(icmp, sizeof ...);
ChecksumApply ==
    /\ cpc = "input"
    /\ field # 0
    /\ buf' = WithField(buf, field, csum(WithField(buf, field, 0)))
    /\ cpc' = "applied"
    /\ UNCHANGED <<field, result>>
    /\ UNCHANGED <<endianVars, floodVars, decodeVars>>

\* the same function run over the full buffer, checksum field included
Verify ==
    /\ cpc = "applied"
    /\ result' = csum(buf)
    /\ cpc' = "verified"
    /\ UNCHANGED <<buf, field>>
    /\ UNCHANGED <<endianVars, floodVars, decodeVars>>

(***************************************************************************)
(* icmp_flood.c main()                                                     *)
(***************************************************************************)

IpHdrLen == 20     \* sizeof(struct iphdr)
IcmpHdrLen == 8    \* sizeof(struct icmphdr)
MaxIter == 2

\* char *spoofed_ips[] through inet_addr: the 4 bytes left in memory
SpoofedIps == {<<10, 0, 0, 3>>, <<10, 0, 0, 4>>, <<10, 0, 0, 5>>, <<10, 0, 0, 6>>}
\* inet_addr(target_ip) for the address read by scanf
TargetIps == {<<10, 0, 0, 1>>, <<255, 255, 255, 255>>, <<192, 168, 1, 77>>}
\* getpid()
Pids == {1, 70000}
\* rand() % 65535
SeqValues == {0, 255, 256, 4660, 32768, 65534}

\* the byte of the buffer d at offset off
At(d, off) == d[off + 1]

\* bytes off .. off+n-1 of d, as csum sees them through (unsigned short *)
View(d, off, n) ==
    [runs |-> [i \in 1..(n \div 2) |->
                  [b0 |-> At(d, off + 2 * (i - 1)), b1 |-> At(d, off + 2 * i - 1), n |-> 1]],
     odd |-> IF n % 2 = 1 THEN <<At(d, off + n - 1)>> ELSE <<>>]

\* a 16-bit field of the datagram assigned the value v
Put16(d, off, v) ==
    [d EXCEPT ![off + 1] = StoreWord(v)[1], ![off + 2] = StoreWord(v)[2]]

\* a 32-bit address field assigned inet_addr's result
Put32(d, off, a) ==
    [d EXCEPT ![off + 1] = a[1], ![off + 2] = a[2], ![off + 3] = a[3], ![off + 4] = a[4]]

\* a one-byte field of the datagram assigned the value v
Put8(d, off, v) == [d EXCEPT ![off + 1] = v]

\* the 16-bit field at off read back
Get16(d, off) == LoadWord(At(d, off), At(d, off + 1))

\* iph->tot_len = sizeof(struct iphdr) + sizeof(struct icmphdr);
TotLenValue == IpHdrLen + IcmpHdrLen

\* IP header configuration and ICMP header configuration
ConfigureHeaders ==
    /\ fpc = "config"
    /\ datagram' =
         LET b0 == Put8(datagram, 0, 4 * 16 + 5)         \* version = 4, ihl = 5
             b1 == Put8(b0, 1, 0)                        \* tos
             b2 == Put8(b1, 8, 255)                      \* ttl
             b3 == Put8(b2, 9, 1)                        \* protocol = IPPROTO_ICMP
             b4 == Put8(b3, 20, 8)                       \* type = ICMP_ECHO
             d0 == Put8(b4, 21, 0)                       \* code
             d1 == Put16(d0, 2, TotLenValue)             \* tot_len
             d2 == Put16(d1, 4, htons(12345))            \* id
             d3 == Put16(d2, 6, 0)                       \* frag_off
             d4 == Put16(d3, 10, 0)                      \* check
             d5 == Put32(d4, 16, target)                 \* daddr
             d6 == Put16(d5, 24, htons(pid))             \* un.echo.id
             d7 == Put16(d6, 26, 0)                      \* un.echo.sequence
         IN Put16(d7, 22, 0)                             \* checksum
    /\ fpc' = "setsockopt"
    /\ UNCHANGED <<pid, target, iter, sent>>
    /\ UNCHANGED <<endianVars, csumVars, decodeVars>>

\* if (setsockopt(...) < 0) { perror; exit(1); }
SetSockOpt ==
    /\ fpc = "setsockopt"
    /\ \E okay \in BOOLEAN : fpc' = IF okay THEN "src" ELSE "exit"
    /\ UNCHANGED <<datagram, pid, target, iter, sent>>
    /\ UNCHANGED <<endianVars, csumVars, decodeVars>>

\* iph->saddr = inet_addr(spoofed_ips[rand() % 4]);
PickSource ==
    /\ fpc = "src"
    /\ iter < MaxIter
    /\ \E a \in SpoofedIps : datagram' = Put32(datagram, 12, a)
    /\ fpc' = "seq"
    /\ UNCHANGED <<pid, target, iter, sent>>
    /\ UNCHANGED <<endianVars, csumVars, decodeVars>>

\* icmph->un.echo.sequence = htons(rand() % 65535);
SetSequence ==
    /\ fpc = "seq"
    /\ \E r \in SeqValues : datagram' = Put16(datagram, 26, htons(r))
    /\ fpc' = "icmp_zero"
    /\ UNCHANGED <<pid, target, iter, sent>>
    /\ UNCHANGED <<endianVars, csumVars, decodeVars>>

\* icmph->checksum = 0;
ZeroIcmpChecksum ==
    /\ fpc = "icmp_zero"
    /\ datagram' = Put16(datagram, 22, 0)
    /\ fpc' = "icmp_csum"
    /\ UNCHANGED <<pid, target, iter, sent>>
    /\ UNCHANGED <<endianVars, csumVars, decodeVars>>

\* faulty variant of IcmpChecksumValue: the ICMP checksum is left at zero
IcmpChecksumOmitted(d) == 0

\* csum((unsigned short *)icmph, sizeof(struct icmphdr))
IcmpChecksumValue(d) == csum(View(d, IpHdrLen, IcmpHdrLen))

\* icmph->checksum = csum(...);
SetIcmpChecksum ==
    /\ fpc = "icmp_csum"
    /\ datagram' = Put16(datagram, 22, IcmpChecksumValue(datagram))
    /\ fpc' = "ip_zero"
    /\ UNCHANGED <<pid, target, iter, sent>>
    /\ UNCHANGED <<endianVars, csumVars, decodeVars>>

\* faulty variant of ZeroIpCheck: the previous iteration's checksum is kept
ZeroIpCheckOmitted(d) == d

\* iph->check = 0;
ZeroIpCheck(d) == Put16(d, 10, 0)

ZeroIpChecksum ==
    /\ fpc = "ip_zero"
    /\ datagram' = ZeroIpCheck(datagram)
    /\ fpc' = "ip_csum"
    /\ UNCHANGED <<pid, target, iter, sent>>
    /\ UNCHANGED <<endianVars, csumVars, decodeVars>>

\* csum((unsigned short *)datagram, iph->tot_len)
IpChecksumValue(d) == csum(View(d, 0, Get16(d, 2)))

\* iph->check = csum(...);
SetIpChecksum ==
    /\ fpc = "ip_csum"
    /\ datagram' = Put16(datagram, 10, IpChecksumValue(datagram))
    /\ fpc' = "send"
    /\ UNCHANGED <<pid, target, iter, sent>>
    /\ UNCHANGED <<endianVars, csumVars, decodeVars>>

\* if (sendto(s, datagram, iph->tot_len, ...) < 0) perror("sendto failed");
SendTo ==
    /\ fpc = "send"
    /\ \E okay \in BOOLEAN :
         sent' = [bytes |-> SubSeq(datagram, 1, Get16(datagram, 2)),
                  len |-> Get16(datagram, 2),
                  ok |-> okay]
    /\ iter' = iter + 1
    /\ fpc' = "src"
    /\ UNCHANGED <<datagram, pid, target>>
    /\ UNCHANGED <<endianVars, csumVars, decodeVars>>

(***************************************************************************)
(* analyzer.c and parser.c: packet_handler(args, header, packet)           *)
(*                                                                         *)
(* A captured frame is [caplen, etype, vhl, proto, fill]: caplen bytes of  *)
(* which bytes 12..13 hold etype (network byte order), byte 14 holds vhl   *)
(* (version and header length), byte 23 holds proto and every other byte   *)
(* holds fill.  Neither handler looks at header->caplen: a read at an      *)
(* offset that is not below caplen is a read outside the captured frame,   *)
(* and yields any byte.                                                    *)
(***************************************************************************)

EthHdrLen == 14          \* sizeof(struct ether_header)
ETHERTYPE_IP == 2048     \* 0x0800
ETHERTYPE_ARP == 2054    \* 0x0806
IPPROTO_ICMP == 1
IPPROTO_TCP == 6
IPPROTO_UDP == 17
ICMP_ECHO == 8
ICMP_ECHOREPLY == 0
MaxCalls == 2

\* the byte of the frame at offset off (off < f.caplen)
FrameByte(f, off) ==
    CASE off = 12 -> f.etype \div 256
      [] off = 13 -> f.etype % 256
      [] off = EthHdrLen -> f.vhl
      [] off = EthHdrLen + 9 -> f.proto
      [] OTHER -> f.fill

\* values a byte read outside the captured frame may produce
GarbageBytes == {0, 1, 6, 8}

\* the values a read of packet[off] can produce
ReadByte(f, off) ==
    IF off < f.caplen THEN {FrameByte(f, off)} ELSE GarbageBytes

Class(k, c) == [kind |-> k, code |-> c]

\* faulty variant of IcmpClassify: type 13 reported as a timestamp request
IcmpClassifyTimestamp(t) ==
    IF t = ICMP_ECHO THEN Class("EchoRequest", t)
    ELSE IF t = ICMP_ECHOREPLY THEN Class("EchoReply", t)
    ELSE IF t = 13 THEN Class("TimestampRequest", t)
    ELSE Class("OtherICMP", t)

\* analyzer.c: the if / else if / else on icmp_header->icmp_type
IcmpClassify(t) ==
    IF t = ICMP_ECHO THEN Class("EchoRequest", t)
    ELSE IF t = ICMP_ECHOREPLY THEN Class("EchoReply", t)
    ELSE Class("OtherICMP", t)

\* byte offset of the ICMP header: sizeof(struct ether_header) + (ip_hl << 2)
IcmpOffset(v) == EthHdrLen + (v % 16) * 4

\* analyzer.c: the possible outcomes [out, reads, itype] of decoding frame f
AnalyzerOutcomes(f) ==
    UNION {
      IF e0 * 256 + e1 = ETHERTYPE_IP THEN
        UNION {
          IF p = IPPROTO_ICMP THEN
            UNION {
              {[out |-> IcmpClassify(t),
                reads |-> {12, 13, EthHdrLen + 9, EthHdrLen, IcmpOffset(v)},
                itype |-> t] : t \in ReadByte(f, IcmpOffset(v))}
              : v \in ReadByte(f, EthHdrLen)}
          ELSE IF p = IPPROTO_TCP THEN
            {[out |-> Class("TCP", -1), reads |-> {12, 13, EthHdrLen + 9}, itype |-> -1]}
          ELSE IF p = IPPROTO_UDP THEN
            {[out |-> Class("UDP", -1), reads |-> {12, 13, EthHdrLen + 9}, itype |-> -1]}
          ELSE
            {[out |-> Class("OtherIP", p), reads |-> {12, 13, EthHdrLen + 9}, itype |-> -1]}
          : p \in ReadByte(f, EthHdrLen + 9)}
      ELSE IF e0 * 256 + e1 = ETHERTYPE_ARP THEN
        {[out |-> Class("ARP", -1), reads |-> {12, 13}, itype |-> -1]}
      ELSE
        {[out |-> Class("Unknown", -1), reads |-> {12, 13}, itype |-> -1]}
      : e0 \in ReadByte(f, 12), e1 \in ReadByte(f, 13)}

\* parser.c: the possible outcomes of decoding frame f; "None" is no output
ParserOutcomes(f) ==
    UNION {
      IF e0 * 256 + e1 = ETHERTYPE_IP THEN
        {[out |-> IF p = IPPROTO_ICMP THEN Class("ICMP", -1)
                  ELSE IF p = IPPROTO_TCP THEN Class("TCP", -1)
                  ELSE IF p = IPPROTO_UDP THEN Class("UDP", -1)
                  ELSE Class("None", -1),
          reads |-> {12, 13, EthHdrLen + 9},
          itype |-> -1] : p \in ReadByte(f, EthHdrLen + 9)}
      ELSE IF e0 * 256 + e1 = ETHERTYPE_ARP THEN
        {[out |-> Class("ARP", -1), reads |-> {12, 13}, itype |-> -1]}
      ELSE
        {[out |-> Class("None", -1), reads |-> {12, 13}, itype |-> -1]}
      : e0 \in ReadByte(f, 12), e1 \in ReadByte(f, 13)}

Outcomes(p, f) == IF p = "analyzer" THEN AnalyzerOutcomes(f) ELSE ParserOutcomes(f)

\* the relative time printed, in microseconds
\* analyzer.c: (tv_sec - start_sec) + (tv_usec - start_usec) / 1000000.0
\* parser.c:   (tv_sec - start_sec) + (tv_usec / 1000000.0)
RelativeTime(p, t, ss, su) ==
    IF p = "analyzer" THEN (t.sec - ss) * 1000000 + (t.usec - su)
    ELSE (t.sec - ss) * 1000000 + t.usec

\* frames and timestamps the capture source supplies
CapLens == {0, 13, 14, 34, 35, 75}
IcmpFrames ==
    {[caplen |-> n, etype |-> ETHERTYPE_IP, vhl |-> v, proto |-> IPPROTO_ICMP, fill |-> b]
       : n \in CapLens \ {0}, v \in {69, 79, 64}, b \in {0, 8, 13, 255}}
OtherIpFrames ==
    {[caplen |-> n, etype |-> ETHERTYPE_IP, vhl |-> 69, proto |-> p, fill |-> 0]
       : n \in {13, 24, 34}, p \in {IPPROTO_TCP, IPPROTO_UDP, 47}}
NonIpFrames ==
    {[caplen |-> n, etype |-> e, vhl |-> 0, proto |-> 0, fill |-> 0]
       : n \in {0, 13, 14}, e \in {ETHERTYPE_ARP, 34525}}
Frames == IcmpFrames \cup OtherIpFrames \cup NonIpFrames
Timestamps == {[sec |-> s, usec |-> u] : s \in {0, 5, 7}, u \in {0, 3}}
Frame0 == [caplen |-> 75, etype |-> ETHERTYPE_IP, vhl |-> 69, proto |-> IPPROTO_ICMP, fill |-> 8]
Ts0 == [sec |-> 5, usec |-> 3]
Captures ==
    {[frame |-> f, ts |-> Ts0] : f \in Frames}
      \cup {[frame |-> Frame0, ts |-> t] : t \in Timestamps}

NoFrame == [caplen |-> 0, etype |-> 0, vhl |-> 0, proto |-> 0, fill |-> 0]
NoTs == [sec |-> 0, usec |-> 0]

\* one call of packet_handler by pcap_loop
PacketHandler ==
    /\ calls < MaxCalls
    /\ \E c \in Captures : \E d \in Outcomes(prog, c.frame) :
         LET first == (start_sec = 0)             \* if (start_sec == 0)
             ss == IF first THEN c.ts.sec ELSE start_sec
             su == IF first /\ prog = "analyzer" THEN c.ts.usec ELSE start_usec
             r == RelativeTime(prog, c.ts, ss, su)
         IN /\ start_sec' = ss
            /\ start_usec' = su
            /\ rel' = r
            /\ frame' = c.frame
            /\ ts' = c.ts
            /\ reads' = d.reads
            /\ out' = [out |-> d.out, itype |-> d.itype]
            /\ calls' = calls + 1
            /\ first_ts' = IF calls = 0 THEN c.ts ELSE first_ts
            /\ first_rel' = IF calls = 0 THEN r ELSE first_rel
    /\ UNCHANGED prog
    /\ UNCHANGED <<endianVars, csumVars, floodVars>>

(***************************************************************************)
(* Specifications: each program runs alone, on a build of either byte      *)
(* order; the variables of the other programs stay at rest.                *)
(***************************************************************************)

ZeroDatagram == [i \in 1..(IpHdrLen + IcmpHdrLen) |-> 0]
NothingSent == [bytes |-> <<>>, len |-> 0, ok |-> FALSE]
NoOutput == [out |-> Class("None", -1), itype |-> -1]

\* csum called on a buffer drawn from Buffers
InitCsum ==
    /\ little_endian \in BOOLEAN
    /\ buf \in Buffers
    /\ field \in Fields(buf)
    /\ result = -1
    /\ cpc = "input"
    /\ datagram = ZeroDatagram
    /\ fpc = "idle"
    /\ pid = 0
    /\ target = <<0, 0, 0, 0>>
    /\ iter = 0
    /\ sent = NothingSent
    /\ prog = "none"
    /\ start_sec = 0
    /\ start_usec = 0
    /\ frame = NoFrame
    /\ ts = NoTs
    /\ reads = {}
    /\ out = NoOutput
    /\ rel = 0
    /\ calls = 0
    /\ first_ts = NoTs
    /\ first_rel = 0

CsumNext == CallCsum \/ ChecksumApply \/ Verify

SpecCsum == InitCsum /\ [][CsumNext]_vars

\* icmp_flood.c after memset(datagram, 0, 4096) and inet_addr(target_ip)
InitFlood ==
    /\ little_endian \in BOOLEAN
    /\ buf = [runs |-> <<>>, odd |-> <<>>]
    /\ field = 0
    /\ result = -1
    /\ cpc = "idle"
    /\ datagram = ZeroDatagram
    /\ fpc = "config"
    /\ pid \in Pids
    /\ target \in TargetIps
    /\ iter = 0
    /\ sent = NothingSent
    /\ prog = "none"
    /\ start_sec = 0
    /\ start_usec = 0
    /\ frame = NoFrame
    /\ ts = NoTs
    /\ reads = {}
    /\ out = NoOutput
    /\ rel = 0
    /\ calls = 0
    /\ first_ts = NoTs
    /\ first_rel = 0

FloodNext ==
    \/ ConfigureHeaders
    \/ SetSockOpt
    \/ PickSource
    \/ SetSequence
    \/ ZeroIcmpChecksum
    \/ SetIcmpChecksum
    \/ ZeroIpChecksum
    \/ SetIpChecksum
    \/ SendTo

SpecFlood == InitFlood /\ [][FloodNext]_vars

\* analyzer.c or parser.c before pcap_loop delivers the first frame:
\* static long start_sec = 0; static long start_usec = 0;
InitDecode ==
    /\ little_endian \in BOOLEAN
    /\ buf = [runs |-> <<>>, odd |-> <<>>]
    /\ field = 0
    /\ result = -1
    /\ cpc = "idle"
    /\ datagram = ZeroDatagram
    /\ fpc = "idle"
    /\ pid = 0
    /\ target = <<0, 0, 0, 0>>
    /\ iter = 0
    /\ sent = NothingSent
    /\ prog \in {"analyzer", "parser"}
    /\ start_sec = 0
    /\ start_usec = 0
    /\ frame = NoFrame
    /\ ts = NoTs
    /\ reads = {}
    /\ out = NoOutput
    /\ rel = 0
    /\ calls = 0
    /\ first_ts = NoTs
    /\ first_rel = 0

DecodeNext == PacketHandler

SpecDecode == InitDecode /\ [][DecodeNext]_vars

(***************************************************************************)
(* Properties                                                              *)
(***************************************************************************)

\* C1: after the checksum field is zeroed, csum is computed over the buffer
\* and stored in the field, csum over the full buffer returns 0.
C1_SelfVerification ==
    cpc = "verified" => result = 0

\* the 16-bit-word sum folded until no carry above bit 15 remains
RECURSIVE FoldUntilNoCarry(_)
FoldUntilNoCarry(s) ==
    IF s < 65536 THEN s ELSE FoldUntilNoCarry((s \div 65536) + (s % 65536))

\* C8: for every input length, csum returns the 16-bit complement of the
\* word sum folded until no carry remains (0xFFFF for an empty or all-zero
\* input).
C8_LengthIndependentFold ==
    cpc = "called" =>
        result = 65535 - FoldUntilNoCarry(WordSum(buf).hi + WordSum(buf).lo)

\* the odd-length buffer b followed by one zero byte
Padded(b) ==
    [runs |-> Append(b.runs, [b0 |-> b.odd[1], b1 |-> 0, n |-> 1]), odd |-> <<>>]

\* C9: for every odd-length buffer B, csum(B) equals csum(B followed by one
\* zero byte).
C9_OddPadding ==
    (cpc = "called" /\ Len(buf.odd) = 1) => result = csum(Padded(buf))

C9_Witness ==
    /\ cpc = "called"
    /\ ~little_endian
    /\ buf.odd = <<171>>
    /\ Len(buf.runs) = 2
    /\ result \notin {0, 65535}

\* C3: the value stored in the IP checksum field equals csum over exactly
\* the 20 bytes of the IP header with the checksum field zero.
C3_IpChecksumOverHeader ==
    fpc = "send" =>
        Get16(datagram, 10) = csum(View(Put16(datagram, 10, 0), 0, IpHdrLen))

C3_Witness ==
    /\ fpc = "send"
    /\ iter = 1
    /\ Get16(datagram, 26) # 0
    /\ Get16(datagram, 22) \notin {0, 65535}
    /\ Get16(datagram, 10) \notin {0, 65535}

\* C4: in every packet handed to sendto, bytes 2..3 read in network byte
\* order equal ip_header_size + icmp_header_size = 28, the number of bytes
\* handed to sendto.
C4_TotalLengthOnWire ==
    fpc = "send" =>
        /\ At(datagram, 2) * 256 + At(datagram, 3) = IpHdrLen + IcmpHdrLen
        /\ Get16(datagram, 2) = IpHdrLen + IcmpHdrLen

\* C10: whenever the buffer is handed to sendto, in any iteration, the
\* 8-byte ICMP header and the 20-byte IP header each verify to 0 under
\* csum, and a send, failed or not, leaves the buffer as it was handed over.
C10_FreshChecksumsAtSend ==
    /\ fpc = "send" =>
         /\ csum(View(datagram, IpHdrLen, IcmpHdrLen)) = 0
         /\ csum(View(datagram, 0, IpHdrLen)) = 0
    /\ (fpc = "src" /\ iter > 0) =>
         /\ sent.len = IpHdrLen + IcmpHdrLen
         /\ sent.bytes = datagram
         /\ csum(View(sent.bytes, IpHdrLen, IcmpHdrLen)) = 0
         /\ csum(View(sent.bytes, 0, IpHdrLen)) = 0

C10_Witness ==
    /\ fpc = "send"
    /\ iter = 1
    /\ ~sent.ok
    /\ At(datagram, 15) # At(sent.bytes, 15)
    /\ Get16(datagram, 26) # Get16(sent.bytes, 26)
    /\ Get16(sent.bytes, 10) \notin {0, 65535}

\* a frame captured through its protocol byte that is IPv4 carrying ICMP
IsIcmpFrame(f) ==
    /\ f.caplen > EthHdrLen + 9
    /\ f.etype = ETHERTYPE_IP
    /\ f.proto = IPPROTO_ICMP

\* C2: every byte offset a decode reads lies inside the captured frame, and
\* a frame shorter than the 14-byte link header, or one whose IP header
\* length points beyond it, is reported as truncated.
C2_ReadsWithinFrame ==
    calls > 0 =>
        /\ \A off \in reads : off < frame.caplen
        /\ frame.caplen < EthHdrLen => out.out.kind = "Truncated"
        /\ (IsIcmpFrame(frame) /\ IcmpOffset(frame.vhl) >= frame.caplen)
              => out.out.kind = "Truncated"

C6_DispatchTotal ==
    (calls > 0 /\ frame.caplen > EthHdrLen + 9) =>
        /\ out.out.kind # "None"
        /\ frame.etype = ETHERTYPE_ARP => out.out = Class("ARP", -1)
        /\ frame.etype \notin {ETHERTYPE_IP, ETHERTYPE_ARP}
              => out.out.kind = "Unknown"
        /\ (frame.etype = ETHERTYPE_IP /\ frame.proto = IPPROTO_TCP)
              => out.out = Class("TCP", -1)
        /\ (frame.etype = ETHERTYPE_IP /\ frame.proto = IPPROTO_UDP)
              => out.out = Class("UDP", -1)
        /\ (frame.etype = ETHERTYPE_IP
              /\ frame.proto \notin {IPPROTO_ICMP, IPPROTO_TCP, IPPROTO_UDP})
              => out.out = Class("OtherIP", frame.proto)
        /\ (frame.etype = ETHERTYPE_IP /\ frame.proto # IPPROTO_ICMP)
              => \A off \in reads : off < EthHdrLen + 20

\* C7: the baseline (start_sec, and start_usec where kept) is unset before
\* the first call, is set to the first frame's timestamp by the first call,
\* and keeps that value through every later call, for any timestamps
\* (seconds 0 included); with both fields kept, the first frame's relative
\* time is 0.
C7_BaselineLifecycle ==
    /\ calls = 0 => (start_sec = 0 /\ start_usec = 0)
    /\ calls > 0 =>
         /\ start_sec = first_ts.sec
         /\ prog = "analyzer" => (start_usec = first_ts.usec /\ first_rel = 0)

====
